---- MODULE Spec2Model ----
(***************************************************************************)
(* String-literal rewriting of rustfmt (src/src/rework_string.rs):         *)
(* StringFormat, the break scanners, the URL guard, StringSplitter and      *)
(* rewrite_string.  A string is a sequence of one-character strings; a      *)
(* byte index of the source is the number of characters before it (every    *)
(* character of the alphabet below is one byte and one column wide, the     *)
(* control characters being zero columns wide).                             *)
(***************************************************************************)
EXTENDS Integers, Sequences, FiniteSets, TLC

\* ------------------------------------------------------------- bounds
\* Longest input, counted in tokens of Tokens.
MaxTokens == 3
\* Largest first-line budget tried on every input.
MaxBudget == 2
\* Budgets from this far below the input's length up to its length are
\* tried as well.
MaxSlack == 2

\* ----------------------------------------------------------- alphabet
\* Letters (line-break class AL, general category L).
Letters == {"a", "e", "f", "h", "i", "l", "p", "s", "t"}
\* char::is_whitespace
WhiteSpaceChars == {" ", "\n", "\r"}
\* UnicodeCategories::is_punctuation_other (general category Po):
\* REVERSE SOLIDUS, EXCLAMATION MARK, COLON and SOLIDUS are all Po.
PunctuationOtherChars == {"\\", "!", ":", "/"}
\* UnicodeCategories::is_punctuation_dash (general category Pd)
PunctuationDashChars == {"-"}
\* UnicodeCategories::is_separator_space (general category Zs)
SeparatorSpaceChars == {" "}
\* [[:space:]] of the regex crate (ASCII white space)
RegexSpaceChars == {" ", "\n", "\r"}

\* UAX#14 line-break class of a character.
LineBreakClass(c) ==
    CASE c \in Letters -> "AL"
      [] c = " "       -> "SP"
      [] c = "\n"      -> "LF"
      [] c = "\r"      -> "CR"
      [] c = "\\"      -> "PR"
      [] c = "!"       -> "EX"
      [] c = ":"       -> "IS"
      [] c = "/"       -> "SY"
      [] c = "-"       -> "HY"
      [] OTHER         -> "AL"

\* ------------------------------------------------------ string helpers
Prefix(s, n) == SubSeq(s, 1, n)
Suffix(s, n) == SubSeq(s, n + 1, Len(s))

\* str::starts_with: s is a prefix of t.
IsPrefix(s, t) == Len(s) <= Len(t) /\ s = Prefix(t, Len(s))

EndsWith(s, set) == Len(s) > 0 /\ s[Len(s)] \in set

\* str::find(pattern): the least 0-based index where pat occurs, -1 for None.
Find(s, pat) ==
    LET hits == {i \in 0..(Len(s) - Len(pat)) : SubSeq(s, i + 1, i + Len(pat)) = pat}
    IN  IF hits = {} THEN -1 ELSE CHOOSE i \in hits : \A j \in hits : i <= j

Contains(s, pat) == Find(s, pat) >= 0

\* str::find(char::is_whitespace)
FindWhitespace(s) ==
    LET hits == {i \in 0..(Len(s) - 1) : s[i + 1] \in WhiteSpaceChars}
    IN  IF hits = {} THEN -1 ELSE CHOOSE i \in hits : \A j \in hits : i <= j

\* str::trim_end: the length left after removing trailing white space.
TrimEndLen(s) ==
    LET keep == {i \in 1..Len(s) : s[i] \notin WhiteSpaceChars}
    IN  IF keep = {} THEN 0 ELSE CHOOSE i \in keep : \A j \in keep : j <= i

TrimEnd(s) == Prefix(s, TrimEndLen(s))

\* utils::unicode_str_width: displayed columns; control characters take none.
unicode_str_width(s) ==
    Cardinality({i \in 1..Len(s) : s[i] \notin {"\n", "\r"}})

\* ------------------------------------------------------- StringFormat
\* max_width_with_indent with a saturating subtraction.
max_width_with_indent_saturating(fmt) ==
    LET used == Len(fmt.opener) + Len(fmt.line_end) + 1
    IN  (IF fmt.shape_width < used THEN 0 ELSE fmt.shape_width - used) + 1

\* max_width_with_indent taking the closer off the budget as well.
max_width_with_indent_less_closer(fmt) ==
    IF fmt.shape_width < Len(fmt.opener) + Len(fmt.line_end) + Len(fmt.closer) + 1
    THEN -1
    ELSE fmt.shape_width
         - (Len(fmt.opener) + Len(fmt.line_end) + Len(fmt.closer) + 1) + 1

max_width_with_indent(fmt) ==
    IF fmt.shape_width < Len(fmt.opener) + Len(fmt.line_end) + 1
    THEN -1
    ELSE fmt.shape_width - (Len(fmt.opener) + Len(fmt.line_end) + 1) + 1

max_width_without_indent(fmt) ==
    IF fmt.max_width < Len(fmt.line_end) THEN -1
    ELSE fmt.max_width - Len(fmt.line_end)

\* ------------------------------------------------------- contains_url
UrlMarkers ==
    { <<"h", "t", "t", "p", "s", ":", "/", "/">>,
      <<"h", "t", "t", "p", ":", "/", "/">>,
      <<"f", "t", "p", ":", "/", "/">>,
      <<"f", "i", "l", "e", ":", "/", "/">> }

contains_url(text) == \E m \in UrlMarkers : Contains(text, m)

\* --------------------------------------------- unicode_linebreak::linebreaks
\* The break opportunity after the first i characters of text (1 <= i <=
\* Len(text)), by the pair rules of UAX#14 that apply to the alphabet:
\* LB3 (end of text), LB4/LB5 (after a line feed), LB6, LB7, LB13, LB18,
\* LB21, LB24, LB28, LB29, LB31.
BreakAfter(text, i) ==
    IF i = Len(text) THEN "Mandatory"
    ELSE LET b == LineBreakClass(text[i])
             a == LineBreakClass(text[i + 1])
         IN  IF b = "LF" THEN "Mandatory"
             ELSE IF b = "CR" /\ a = "LF" THEN "None"
             ELSE IF b = "CR" THEN "Mandatory"
             ELSE IF a \in {"LF", "CR"} THEN "None"
             ELSE IF a = "SP" THEN "None"
             ELSE IF a \in {"EX", "IS", "SY"} THEN "None"
             ELSE IF b = "SP" THEN "Allowed"
             ELSE IF a = "HY" THEN "None"
             ELSE IF b = "PR" /\ a = "AL" THEN "None"
             ELSE IF b = "AL" /\ a = "PR" THEN "None"
             ELSE IF b = "AL" /\ a = "AL" THEN "None"
             ELSE IF b = "IS" /\ a = "AL" THEN "None"
             ELSE "Allowed"

\* The positions linebreaks(text) yields, in increasing order.
linebreaks(text) == {i \in 1..Len(text) : BreakAfter(text, i) # "None"}

Min(S) == CHOOSE i \in S : \A j \in S : i <= j
Max(S) == CHOOSE i \in S : \A j \in S : j <= i

\* ------------------------------------------- line_break_opportunities
\* line_break_filter taking the column past the budget whether or not the
\* trailing space will be trimmed.
line_break_filter_any_space(text, byte_idx, max_graphemes, trim_end) ==
    LET snippet == Prefix(text, byte_idx)
        width == unicode_str_width(snippet)
    IN  IF EndsWith(snippet, {"\\"}) \/ EndsWith(snippet, PunctuationDashChars)
        THEN FALSE
        ELSE IF width <= max_graphemes THEN TRUE
        ELSE width = max_graphemes + 1 /\ EndsWith(snippet, SeparatorSpaceChars)

\* line_break_filter without the test for a trailing dash.
line_break_filter_keeps_dash(text, byte_idx, max_graphemes, trim_end) ==
    LET snippet == Prefix(text, byte_idx)
        width == unicode_str_width(snippet)
    IN  IF EndsWith(snippet, {"\\"}) THEN FALSE
        ELSE IF width <= max_graphemes THEN TRUE
        ELSE IF width = max_graphemes + 1
             THEN trim_end /\ EndsWith(snippet, SeparatorSpaceChars)
        ELSE FALSE

line_break_filter(text, byte_idx, max_graphemes, trim_end) ==
    LET snippet == Prefix(text, byte_idx)
        ends_with_escape == EndsWith(snippet, {"\\"})
        ends_with_dash == EndsWith(snippet, PunctuationDashChars)
        width == unicode_str_width(snippet)
    IN  IF ends_with_escape \/ ends_with_dash THEN FALSE
        ELSE IF width <= max_graphemes THEN TRUE
        ELSE IF width = max_graphemes + 1
             THEN trim_end /\ EndsWith(snippet, SeparatorSpaceChars)
        ELSE FALSE

line_break_opportunities(text, max_graphemes, trim_end) ==
    {i \in linebreaks(text) : line_break_filter(text, i, max_graphemes, trim_end)}

\* ------------------------------------- alternative_punctuation_breaks
\* grapheme_indices(text, true): the 0-based starts of the grapheme
\* clusters; "\r\n" is one cluster, every other character is its own.
grapheme_starts(text) ==
    {i \in 0..(Len(text) - 1) : ~(i > 0 /\ text[i] = "\r" /\ text[i + 1] = "\n")}

grapheme_at(text, i) ==
    IF i + 2 <= Len(text) /\ text[i + 1] = "\r" /\ text[i + 2] = "\n"
    THEN <<"\r", "\n">> ELSE <<text[i + 1]>>

is_punctuation(grapheme) ==
    \A k \in 1..Len(grapheme) : grapheme[k] \in PunctuationOtherChars

is_whitespace(grapheme) ==
    \A k \in 1..Len(grapheme) : grapheme[k] \in WhiteSpaceChars

\* punctuation_break_filter without the test of the next grapheme being
\* punctuation too.
punctuation_break_filter_no_pair(text, curr, next, max_graphemes, trim_end) ==
    IF \/ ~is_punctuation(grapheme_at(text, curr))
       \/ (~trim_end /\ is_whitespace(grapheme_at(text, next)))
    THEN FALSE
    ELSE unicode_str_width(Prefix(text, next)) <= max_graphemes

\* punctuation_break_filter taking a break before white space whether or
\* not it can be trimmed.
punctuation_break_filter_keeps_space(text, curr, next, max_graphemes, trim_end) ==
    IF \/ ~is_punctuation(grapheme_at(text, curr))
       \/ is_punctuation(grapheme_at(text, next))
    THEN FALSE
    ELSE unicode_str_width(Prefix(text, next)) <= max_graphemes

punctuation_break_filter(text, curr, next, max_graphemes, trim_end) ==
    IF \/ ~is_punctuation(grapheme_at(text, curr))
       \/ (~trim_end /\ is_whitespace(grapheme_at(text, next)))
       \/ is_punctuation(grapheme_at(text, next))
    THEN FALSE
    ELSE unicode_str_width(Prefix(text, next)) <= max_graphemes

alternative_punctuation_breaks(text, max_graphemes, trim_end) ==
    LET starts == grapheme_starts(text)
    IN  {next \in starts \ {0} :
            LET curr == Max({c \in starts : c < next})
            IN  punctuation_break_filter(text, curr, next, max_graphemes, trim_end)}

\* ---------------------------------------------- safe_break_after_url
\* safe_break_after_url finding nothing when the URL runs to the end.
safe_break_after_url_needs_space(s) ==
    IF ~contains_url(s) THEN -1
    ELSE LET byte_index == Find(s, <<":", "/", "/">>)
             pos == FindWhitespace(Suffix(s, byte_index))
         IN  IF pos = -1 THEN -1
             ELSE Min({i \in linebreaks(s) : i >= byte_index + pos})

\* -1 stands for None.
safe_break_after_url(s) ==
    IF ~contains_url(s) THEN -1
    ELSE LET byte_index == Find(s, <<":", "/", "/">>)
             pos == FindWhitespace(Suffix(s, byte_index))
         IN  IF pos = -1 THEN Len(s)
             ELSE Min({i \in linebreaks(s) : i >= byte_index + pos})

\* ------------------------------------------------------ trim helpers
trim_end_whitespace(text) == TrimEnd(text)

trim_end_but_line_feed(text, trim_end) ==
    IF ~trim_end THEN text
    ELSE LET ends_with_newline == EndsWith(text, {"\n"})
             trimmed == trim_end_whitespace(text)
         IN  IF ends_with_newline THEN trimmed \o <<"\n">> ELSE trimmed

\* ----------------------------------------------------- StringSplitter
NoSplitter ==
    [text |-> <<>>, offset |-> 0, max_graphemes |-> 0,
     max_graphemes_with_indent |-> 0, max_graphemes_without_indent |-> 0,
     newline_max_graphemes |-> 0, is_bareline_ok |-> FALSE,
     trim_end |-> FALSE, contains_url |-> FALSE]

\* from_format leaving the contains_url flag unset.
from_format_flag_unset(text, f, newline_max_graphemes) ==
    [text |-> text, offset |-> 0,
     max_graphemes |-> max_width_with_indent(f),
     max_graphemes_with_indent |-> max_width_with_indent(f),
     max_graphemes_without_indent |-> max_width_without_indent(f),
     newline_max_graphemes |-> newline_max_graphemes,
     is_bareline_ok |-> (f.line_start = <<>> \/ is_whitespace(f.line_start)),
     trim_end |-> f.trim_end,
     contains_url |-> FALSE]

\* StringSplitter::from_format, for budgets that did not underflow.
from_format(text, fmt, newline_max_graphemes) ==
    [text |-> text, offset |-> 0,
     max_graphemes |-> max_width_with_indent(fmt),
     max_graphemes_with_indent |-> max_width_with_indent(fmt),
     max_graphemes_without_indent |-> max_width_without_indent(fmt),
     newline_max_graphemes |-> newline_max_graphemes,
     is_bareline_ok |-> (fmt.line_start = <<>> \/ is_whitespace(fmt.line_start)),
     trim_end |-> fmt.trim_end,
     contains_url |-> contains_url(text)]

\* The URL guard of update: the relocation index, -1 when the guard is
\* not run or finds nothing.
url_guard_index(self) ==
    IF self.contains_url THEN safe_break_after_url(self.text) ELSE -1

\* The split index update slices at.
adjusted_split_index(self, split_index) ==
    LET i == url_guard_index(self)
    IN  IF i > split_index THEN i ELSE split_index

\* updated_contains_url clearing the flag once the guard has found a URL.
updated_contains_url_cleared(self) ==
    LET i == url_guard_index(self)
    IN  IF i # -1 THEN FALSE ELSE self.contains_url

\* contains_url after update's guard.
updated_contains_url(self) ==
    LET i == url_guard_index(self)
    IN  IF i # -1 THEN contains_url(Suffix(self.text, i)) ELSE self.contains_url

\* snippet_text trimming whatever trim_end says.
snippet_text_always_trimmed(self, consumed) ==
    IF EndsWith(consumed, {"\n"}) THEN consumed ELSE TrimEnd(consumed)

\* The text a step hands out for the slice it consumed.
snippet_text(self, consumed) ==
    LET ends_with_newline == EndsWith(consumed, {"\n"})
        can_trim_end == self.trim_end /\ ~ends_with_newline
    IN  IF can_trim_end THEN TrimEnd(consumed) ELSE consumed

\* line_feed_budget taking the narrow budget whatever line_start is.
line_feed_budget_with_indent(self) == self.max_graphemes_with_indent

\* The budget after a step that ended at a line feed.
line_feed_budget(self) ==
    IF self.is_bareline_ok THEN self.max_graphemes_without_indent
    ELSE self.max_graphemes_with_indent

\* update classifying a slice that ends in a newline before it looks at
\* the remainder.
update_newline_first(self, index) ==
    LET split_index == adjusted_split_index(self, index)
        consumed == Prefix(self.text, split_index)
        remainder == Suffix(self.text, split_index)
        offset == self.offset + split_index
        ends_with_newline == EndsWith(consumed, {"\n"})
        text == snippet_text(self, consumed)
        moved == [self EXCEPT !.text = remainder, !.offset = offset,
                              !.contains_url = updated_contains_url(self)]
    IN  IF ~self.trim_end /\ ends_with_newline
        THEN [splitter |-> [moved EXCEPT !.max_graphemes = line_feed_budget(self)],
              state |-> [kind |-> "EndWithLineFeed", text |-> text, len |-> offset]]
        ELSE IF self.trim_end /\ ends_with_newline
        THEN [splitter |-> [moved EXCEPT !.max_graphemes = line_feed_budget(self)],
              state |-> [kind |-> "RemovedSignificantLineFeed",
                         text |-> TrimEnd(text), len |-> offset]]
        ELSE IF remainder = <<>>
        THEN [splitter |-> moved,
              state |-> [kind |-> "EndOfInput", text |-> text, len |-> 0]]
        ELSE [splitter |-> [moved EXCEPT !.max_graphemes = self.newline_max_graphemes],
              state |-> [kind |-> "LineEnd", text |-> text, len |-> offset]]

\* update handing out the length of the step's own slice.
update_own_length(self, index) ==
    LET split_index == adjusted_split_index(self, index)
        consumed == Prefix(self.text, split_index)
        remainder == Suffix(self.text, split_index)
        offset == self.offset + split_index
        ends_with_newline == EndsWith(consumed, {"\n"})
        text == snippet_text(self, consumed)
        moved == [self EXCEPT !.text = remainder, !.offset = offset,
                              !.contains_url = updated_contains_url(self)]
    IN  IF remainder = <<>>
        THEN [splitter |-> moved,
              state |-> [kind |-> "EndOfInput", text |-> text, len |-> 0]]
        ELSE IF ~self.trim_end /\ ends_with_newline
        THEN [splitter |-> [moved EXCEPT !.max_graphemes = line_feed_budget(self)],
              state |-> [kind |-> "EndWithLineFeed", text |-> text, len |-> split_index]]
        ELSE IF self.trim_end /\ ends_with_newline
        THEN [splitter |-> [moved EXCEPT !.max_graphemes = line_feed_budget(self)],
              state |-> [kind |-> "RemovedSignificantLineFeed",
                         text |-> TrimEnd(text), len |-> split_index]]
        ELSE [splitter |-> [moved EXCEPT !.max_graphemes = self.newline_max_graphemes],
              state |-> [kind |-> "LineEnd", text |-> text, len |-> split_index]]

\* update taking the following lines' budget on the last step too.
update_resets_budget(self, index) ==
    LET split_index == adjusted_split_index(self, index)
        consumed == Prefix(self.text, split_index)
        remainder == Suffix(self.text, split_index)
        offset == self.offset + split_index
        ends_with_newline == EndsWith(consumed, {"\n"})
        text == snippet_text(self, consumed)
        moved == [self EXCEPT !.text = remainder, !.offset = offset,
                              !.contains_url = updated_contains_url(self)]
    IN  IF remainder = <<>>
        THEN [splitter |-> [moved EXCEPT !.max_graphemes = self.newline_max_graphemes],
              state |-> [kind |-> "EndOfInput", text |-> text, len |-> 0]]
        ELSE IF ~self.trim_end /\ ends_with_newline
        THEN [splitter |-> [moved EXCEPT !.max_graphemes = line_feed_budget(self)],
              state |-> [kind |-> "EndWithLineFeed", text |-> text, len |-> offset]]
        ELSE IF self.trim_end /\ ends_with_newline
        THEN [splitter |-> [moved EXCEPT !.max_graphemes = line_feed_budget(self)],
              state |-> [kind |-> "RemovedSignificantLineFeed",
                         text |-> TrimEnd(text), len |-> offset]]
        ELSE [splitter |-> [moved EXCEPT !.max_graphemes = self.newline_max_graphemes],
              state |-> [kind |-> "LineEnd", text |-> text, len |-> offset]]

\* update yielding EndWithLineFeed for every slice that ends in a newline,
\* trimmed or not.
update_one_line_feed_state(self, index) ==
    LET split_index == adjusted_split_index(self, index)
        consumed == Prefix(self.text, split_index)
        remainder == Suffix(self.text, split_index)
        offset == self.offset + split_index
        ends_with_newline == EndsWith(consumed, {"\n"})
        text == snippet_text(self, consumed)
        moved == [self EXCEPT !.text = remainder, !.offset = offset,
                              !.contains_url = updated_contains_url(self)]
    IN  IF remainder = <<>>
        THEN [splitter |-> moved,
              state |-> [kind |-> "EndOfInput", text |-> text, len |-> 0]]
        ELSE IF ends_with_newline
        THEN [splitter |-> [moved EXCEPT !.max_graphemes = line_feed_budget(self)],
              state |-> [kind |-> "EndWithLineFeed", text |-> text, len |-> offset]]
        ELSE [splitter |-> [moved EXCEPT !.max_graphemes = self.newline_max_graphemes],
              state |-> [kind |-> "LineEnd", text |-> text, len |-> offset]]

\* StringSplitter::update: the splitter after the step and the state yielded.
update(self, index) ==
    LET split_index == adjusted_split_index(self, index)
        consumed == Prefix(self.text, split_index)
        remainder == Suffix(self.text, split_index)
        offset == self.offset + split_index
        ends_with_newline == EndsWith(consumed, {"\n"})
        text == snippet_text(self, consumed)
        moved == [self EXCEPT !.text = remainder, !.offset = offset,
                              !.contains_url = updated_contains_url(self)]
    IN  IF remainder = <<>>
        THEN [splitter |-> moved,
              state |-> [kind |-> "EndOfInput", text |-> text, len |-> 0]]
        ELSE IF ~self.trim_end /\ ends_with_newline
        THEN [splitter |-> [moved EXCEPT !.max_graphemes = line_feed_budget(self)],
              state |-> [kind |-> "EndWithLineFeed", text |-> text, len |-> offset]]
        ELSE IF self.trim_end /\ ends_with_newline
        THEN [splitter |-> [moved EXCEPT !.max_graphemes = line_feed_budget(self)],
              state |-> [kind |-> "RemovedSignificantLineFeed",
                         text |-> TrimEnd(text), len |-> offset]]
        ELSE [splitter |-> [moved EXCEPT !.max_graphemes = self.newline_max_graphemes],
              state |-> [kind |-> "LineEnd", text |-> text, len |-> offset]]

\* choose_split passing allowed_break_idx on without testing it against 0.
choose_split_unchecked(self) ==
    LET opps == line_break_opportunities(self.text, self.max_graphemes, self.trim_end)
        mandatory == {i \in opps : BreakAfter(self.text, i) = "Mandatory"}
    IN  IF mandatory # {}
        THEN [index |-> Min(mandatory), by |-> "Mandatory"]
        ELSE [index |-> IF opps = {} THEN 0 ELSE Max(opps), by |-> "Allowed"]

\* choose_split running the scanner's loop to its end: the last break
\* yielded wins, Mandatory or not.
choose_split_last_yielded(self) ==
    LET opps == line_break_opportunities(self.text, self.max_graphemes, self.trim_end)
        punctuation_breaks ==
            alternative_punctuation_breaks(self.text, self.max_graphemes, self.trim_end)
    IN  IF opps # {}
        THEN [index |-> Max(opps),
              by |-> IF BreakAfter(self.text, Max(opps)) = "Mandatory"
                     THEN "Mandatory" ELSE "Allowed"]
        ELSE IF punctuation_breaks # {}
        THEN [index |-> Max(punctuation_breaks), by |-> "Punctuation"]
        ELSE [index |-> Len(self.text), by |-> "Fallback"]

\* choose_split keeping the first Allowed break instead of the last.
choose_split_first_allowed(self) ==
    LET opps == line_break_opportunities(self.text, self.max_graphemes, self.trim_end)
        mandatory == {i \in opps : BreakAfter(self.text, i) = "Mandatory"}
        punctuation_breaks ==
            alternative_punctuation_breaks(self.text, self.max_graphemes, self.trim_end)
    IN  IF mandatory # {}
        THEN [index |-> Min(mandatory), by |-> "Mandatory"]
        ELSE IF opps # {}
        THEN [index |-> Min(opps), by |-> "Allowed"]
        ELSE IF punctuation_breaks # {}
        THEN [index |-> Max(punctuation_breaks), by |-> "Punctuation"]
        ELSE [index |-> Len(self.text), by |-> "Fallback"]

\* The index next() passes to update, and the strategy that chose it.
choose_split(self) ==
    LET opps == line_break_opportunities(self.text, self.max_graphemes, self.trim_end)
        mandatory == {i \in opps : BreakAfter(self.text, i) = "Mandatory"}
        allowed_break_idx == IF opps = {} THEN 0 ELSE Max(opps)
        punctuation_breaks ==
            alternative_punctuation_breaks(self.text, self.max_graphemes, self.trim_end)
    IN  IF mandatory # {}
        THEN [index |-> Min(mandatory), by |-> "Mandatory"]
        ELSE IF allowed_break_idx # 0
        THEN [index |-> allowed_break_idx, by |-> "Allowed"]
        ELSE IF punctuation_breaks # {}
        THEN [index |-> Max(punctuation_breaks), by |-> "Punctuation"]
        ELSE [index |-> Len(self.text), by |-> "Fallback"]

\* is_exhausted giving up one character early.
is_exhausted_early(self) == Len(self.text) <= 1

\* next() returns None
is_exhausted(self) == self.text = <<>>

\* ------------------------------------------------------ rewrite_string
\* The number of consecutive characters of s from 0-based position i on
\* that lie in set.
RECURSIVE RunLength(_, _, _)
RunLength(s, i, set) ==
    IF i < Len(s) /\ s[i + 1] \in set THEN 1 + RunLength(s, i + 1, set) ELSE 0

\* strip_line_breaks_from taking any run of backslashes before a line
\* terminator for a continuation, escaped or not.
RECURSIVE strip_line_breaks_any_run(_, _)
strip_line_breaks_any_run(s, i) ==
    IF i >= Len(s) THEN <<>>
    ELSE LET k == RunLength(s, i + 1, {"\\"})
             term == i + 1 + k
             matches == /\ s[i + 1] # "\\"
                        /\ k >= 1
                        /\ term < Len(s)
                        /\ s[term + 1] \in {"\n", "\r"}
         IN  IF matches
             THEN SubSeq(s, i + 1, i + k)
                  \o strip_line_breaks_any_run(s, term + 1 + RunLength(s, term + 1, RegexSpaceChars))
             ELSE <<s[i + 1]>> \o strip_line_breaks_any_run(s, i + 1)

\* Regex::replace_all of ([^\\](\\\\)*)\\[\n\r][[:space:]]* by $1, from
\* 0-based position i on: the leftmost match starts at a character that
\* is no backslash, takes an even number of backslashes, one more
\* backslash, a line terminator and the white space after it.
RECURSIVE strip_line_breaks_from(_, _)
strip_line_breaks_from(s, i) ==
    IF i >= Len(s) THEN <<>>
    ELSE LET k == RunLength(s, i + 1, {"\\"})
             term == i + 1 + k
             matches == /\ s[i + 1] # "\\"
                        /\ k % 2 = 1
                        /\ term < Len(s)
                        /\ s[term + 1] \in {"\n", "\r"}
         IN  IF matches
             THEN SubSeq(s, i + 1, i + k)
                  \o strip_line_breaks_from(s, term + 1 + RunLength(s, term + 1, RegexSpaceChars))
             ELSE <<s[i + 1]>> \o strip_line_breaks_from(s, i + 1)

strip_line_breaks(orig) == strip_line_breaks_from(orig, 0)

\* shape.indent.to_string(config): block indentation in spaces.
indent_without_newline(fmt) == [k \in 1..fmt.indent |-> " "]
\* shape.indent.to_string_with_newline(config)
indent_with_newline(fmt) == <<"\n">> \o indent_without_newline(fmt)

\* push_line_end leaving line_start out.
push_line_end_bare(result, line, fmt) ==
    result \o line \o fmt.line_end \o indent_with_newline(fmt)

\* The arm of rewrite_string's match for a LineEnd.
push_line_end(result, line, fmt) ==
    result \o line \o fmt.line_end \o indent_with_newline(fmt) \o fmt.line_start

\* push_bareline re-indenting whatever line_start is.
push_bareline_always(result, fmt, is_bareline_ok) ==
    result \o indent_without_newline(fmt) \o fmt.line_start

\* What both line-feed arms append after the line.
push_bareline(result, fmt, is_bareline_ok) ==
    IF ~is_bareline_ok
    THEN result \o indent_without_newline(fmt) \o fmt.line_start
    ELSE result

\* The arm for an EndWithLineFeed.
push_end_with_line_feed(result, line, fmt, is_bareline_ok) ==
    LET kept == IF line = <<"\n">> /\ fmt.trim_end
                THEN trim_end_but_line_feed(result, TRUE) ELSE result
    IN  push_bareline(kept \o line, fmt, is_bareline_ok)

\* The arm for a RemovedSignificantLineFeed.
push_removed_line_feed(result, line, fmt, is_bareline_ok) ==
    LET pushed == IF line = <<>>
                  THEN trim_end_but_line_feed(result, TRUE) \o <<"\n">>
                  ELSE result \o line \o <<"\n">>
    IN  push_bareline(pushed, fmt, is_bareline_ok)

\* The arm for an EndOfInput.
push_end_of_input(result, line) ==
    LET kept == IF line = <<"\n">>
                THEN trim_end_but_line_feed(result, TRUE) ELSE result
    IN  kept \o line

\* One iteration of the loop body of rewrite_string.
push_state(result, st, fmt, is_bareline_ok) ==
    IF st.kind = "LineEnd" THEN push_line_end(result, st.text, fmt)
    ELSE IF st.kind = "EndWithLineFeed"
    THEN push_end_with_line_feed(result, st.text, fmt, is_bareline_ok)
    ELSE IF st.kind = "RemovedSignificantLineFeed"
    THEN push_removed_line_feed(result, st.text, fmt, is_bareline_ok)
    ELSE push_end_of_input(result, st.text)

\* The for loop of rewrite_string run to its end: the buffer after the
\* splitter is exhausted.
RECURSIVE rewrite_loop(_, _, _, _)
rewrite_loop(self, result, fmt, is_bareline_ok) ==
    IF is_exhausted(self) THEN result
    ELSE LET out == update(self, choose_split(self).index)
         IN  rewrite_loop(out.splitter,
                          push_state(result, out.state, fmt, is_bareline_ok),
                          fmt, is_bareline_ok)

\* rewrite_string when wrap_str accepts its argument.
rewrite_string(orig, fmt, newline_max_chars) ==
    IF max_width_with_indent(fmt) = -1 \/ max_width_without_indent(fmt) = -1
    THEN [some |-> FALSE, value |-> <<>>]
    ELSE LET str_splitter ==
                 from_format(strip_line_breaks(orig), fmt, newline_max_chars)
         IN  [some |-> TRUE,
              value |-> rewrite_loop(str_splitter, fmt.opener, fmt,
                                     str_splitter.is_bareline_ok)
                        \o fmt.closer]

\* --------------------------------------------------------------- inputs
\* The pieces inputs are built from: single characters of each class the
\* scanners tell apart, and one URL.
Tokens ==
    { <<"a">>, <<" ">>, <<"\n">>, <<"\\">>, <<"!">>, <<"-">>, <<":">>,
      <<"f", "t", "p", ":", "/", "/", "a">> }

RECURSIVE TextsUpTo(_)
TextsUpTo(n) ==
    IF n = 0 THEN {<<>>}
    ELSE LET shorter == TextsUpTo(n - 1)
         IN  shorter \cup {s \o t : s \in shorter, t \in Tokens}

Texts == TextsUpTo(MaxTokens)

\* StringFormat::new (a string literal), and the comment layout the tests
\* of rework_string.rs build by hand.
Layouts ==
    { [opener |-> <<"\"">>, closer |-> <<"\"">>, line_start |-> <<" ">>,
       line_end |-> <<"\\">>, indent |-> 0],
      [opener |-> <<>>, closer |-> <<>>, line_start |-> <<"/", "/", " ">>,
       line_end |-> <<>>, indent |-> 1] }

\* The first-line budgets an input is formatted with; 0 is the shape that
\* cannot hold one grapheme.
Budgets(text) ==
    {b \in 0..Len(text) : b <= MaxBudget \/ b >= Len(text) - MaxSlack}

\* config.max_width() exceeds shape.width by one of these.
WidthGaps(layout) ==
    IF is_whitespace(layout.line_start) THEN {0, 2} ELSE {0}

MakeFormat(layout, budget, gap, trim_end) ==
    [opener |-> layout.opener, closer |-> layout.closer,
     line_start |-> layout.line_start, line_end |-> layout.line_end,
     indent |-> layout.indent,
     shape_width |-> budget + Len(layout.opener) + Len(layout.line_end),
     max_width |-> budget + Len(layout.opener) + Len(layout.line_end) + gap,
     trim_end |-> trim_end]

NoState == [kind |-> "None", text |-> <<>>, len |-> 0]
NoStep == [returned |-> "-", by |-> "None", index |-> 0, split |-> 0,
           budget |-> 0, before |-> <<>>, consumed |-> <<>>]

NoFormatter == [events |-> <<>>, format_code_block |-> FALSE,
                indented_code_block |-> FALSE]

\* ---------------------------------------------------------------- state
VARIABLES
    orig,               \* rewrite_string's input
    fmt,                \* the StringFormat
    newline_max_chars,  \* the caller's budget for lines after a LineEnd
    pc,                 \* "start", "loop" or "done"
    stripped_str,       \* the text handed to the splitter
    splitter,           \* the StringSplitter
    result,             \* the buffer rewrite_string assembles
    state,              \* the SnippetState the last next() yielded
    step,               \* the last next(): what it returned, the strategy,
                        \* the indices, the budget and text it ran with
    steps,              \* the number of states yielded so far
    emitted,            \* the texts of all states yielded, concatenated
    line_ends,          \* the number of LineEnd states yielded
    ret,                \* rewrite_string's return value
    md_pc,              \* "idle", "iterating" or "done"
    formatter,          \* the CodeBlockFormatter
    history,            \* per next() of the formatter: the event taken, the
                        \* event returned, the text handed to
                        \* format_code_block and what it returned
    rewrite_pc,         \* rewrite_markdown: "idle", "loop", "returned_result"
                        \* or "returned_input"
    parsed,             \* the items of parser.into_offset_iter()
    md_events,          \* `events`: what the peekable iterator has left
    fmt_options,        \* the options kept for the next iteration
    batches             \* per iteration of the loop: its sub_events and
                        \* its current_fmt_options

strings == <<orig, fmt, newline_max_chars, pc, stripped_str, splitter, result,
             state, step, steps, emitted, line_ends, ret>>

document == <<rewrite_pc, parsed, md_events, fmt_options, batches>>

markdown == <<md_pc, formatter, history, document>>

vars == <<orig, fmt, newline_max_chars, pc, stripped_str, splitter, result,
          state, step, steps, emitted, line_ends, ret, md_pc, formatter,
          history, rewrite_pc, parsed, md_events, fmt_options, batches>>

inputs == <<orig, fmt, newline_max_chars>>

Pending == [some |-> FALSE, value |-> <<"pending">>]
None == [some |-> FALSE, value |-> <<>>]
Some(v) == [some |-> TRUE, value |-> v]

\* The variables of rewrite_markdown while it is not running.
DocumentIdle ==
    /\ rewrite_pc = "idle"
    /\ parsed = <<>>
    /\ md_events = <<>>
    /\ fmt_options = None
    /\ batches = <<>>

Init ==
    /\ orig \in Texts
    /\ \E layout \in Layouts, budget \in Budgets(orig), trim_end \in BOOLEAN :
          \E gap \in WidthGaps(layout) :
             fmt = MakeFormat(layout, budget, gap, trim_end)
    /\ newline_max_chars \in {0, fmt.shape_width}
    /\ pc = "start"
    /\ stripped_str = <<>>
    /\ splitter = NoSplitter
    /\ result = <<>>
    /\ state = NoState
    /\ step = NoStep
    /\ steps = 0
    /\ emitted = <<>>
    /\ line_ends = 0
    /\ ret = Pending
    /\ md_pc = "idle"
    /\ formatter = NoFormatter
    /\ history = <<>>
    /\ DocumentIdle

\* rewrite_string up to its loop: a budget that underflows returns None.
FromFormatNone ==
    /\ pc = "start"
    /\ (max_width_with_indent(fmt) = -1 \/ max_width_without_indent(fmt) = -1)
    /\ pc' = "done"
    /\ stripped_str' = strip_line_breaks(orig)
    /\ result' = fmt.opener
    /\ ret' = None
    /\ UNCHANGED <<inputs, splitter, state, step, steps, emitted, line_ends, markdown>>

FromFormatSome ==
    /\ pc = "start"
    /\ max_width_with_indent(fmt) # -1
    /\ max_width_without_indent(fmt) # -1
    /\ pc' = "loop"
    /\ stripped_str' = strip_line_breaks(orig)
    /\ result' = fmt.opener
    /\ splitter' = from_format(strip_line_breaks(orig), fmt, newline_max_chars)
    /\ UNCHANGED <<inputs, state, step, steps, emitted, line_ends, ret, markdown>>

\* One iteration of the for loop: next() yields a state, the match arm
\* appends it.
Step ==
    /\ pc = "loop"
    /\ ~is_exhausted(splitter)
    /\ LET chosen == choose_split(splitter)
           out == update(splitter, chosen.index)
       IN  /\ splitter' = out.splitter
           /\ state' = out.state
           /\ step' = [returned |-> "Some",
                       by |-> chosen.by, index |-> chosen.index,
                       split |-> out.splitter.offset - splitter.offset,
                       budget |-> splitter.max_graphemes,
                       before |-> splitter.text,
                       consumed |-> Prefix(splitter.text,
                                           out.splitter.offset - splitter.offset)]
           /\ steps' = steps + 1
           /\ emitted' = emitted \o out.state.text
           /\ line_ends' = line_ends + (IF out.state.kind = "LineEnd" THEN 1 ELSE 0)
           /\ result' = push_state(result, out.state, fmt, splitter.is_bareline_ok)
    /\ UNCHANGED <<inputs, pc, stripped_str, ret, markdown>>

\* next() returns None: the closer is appended and wrap_str decides.
WrapSome ==
    /\ pc = "loop"
    /\ is_exhausted(splitter)
    /\ pc' = "done"
    /\ result' = result \o fmt.closer
    /\ ret' = Some(result \o fmt.closer)
    /\ state' = NoState
    /\ step' = [NoStep EXCEPT !.returned = "None", !.before = splitter.text]
    /\ UNCHANGED <<inputs, stripped_str, splitter, steps, emitted, line_ends, markdown>>

WrapNone ==
    /\ pc = "loop"
    /\ is_exhausted(splitter)
    /\ pc' = "done"
    /\ result' = result \o fmt.closer
    /\ ret' = None
    /\ state' = NoState
    /\ step' = [NoStep EXCEPT !.returned = "None", !.before = splitter.text]
    /\ UNCHANGED <<inputs, stripped_str, splitter, steps, emitted, line_ends, markdown>>

Next ==
    \/ FromFormatNone
    \/ FromFormatSome
    \/ Step
    \/ WrapSome
    \/ WrapNone

Spec == Init /\ [][Next]_vars

\* ------------------------------------------- preprocessing on its own
\* Longest input of the preprocessing, in characters.
MaxChars == 5

\* The characters the regex tells apart: a backslash, a line terminator,
\* white space that is none, and anything else.
StripChars == {"a", "\\", "\n", " "}

StripTexts == UNION {[1..n -> StripChars] : n \in 0..MaxChars}

\* rewrite_string entered with an input for the regex.
StripInit ==
    /\ orig \in StripTexts
    /\ fmt = MakeFormat(CHOOSE layout \in Layouts : layout.indent = 0, 0, 0, FALSE)
    /\ newline_max_chars = 0
    /\ pc = "start"
    /\ stripped_str = <<>>
    /\ splitter = NoSplitter
    /\ result = <<>>
    /\ state = NoState
    /\ step = NoStep
    /\ steps = 0
    /\ emitted = <<>>
    /\ line_ends = 0
    /\ ret = Pending
    /\ md_pc = "idle"
    /\ formatter = NoFormatter
    /\ history = <<>>
    /\ DocumentIdle

\* strip_line_breaks_re.replace_all(orig, "$1")
StripLineBreaks ==
    /\ pc = "start"
    /\ pc' = "stripped"
    /\ stripped_str' = strip_line_breaks(orig)
    /\ UNCHANGED <<inputs, splitter, result, state, step, steps, emitted,
                   line_ends, ret, markdown>>

StripNext == StripLineBreaks

StripSpec == StripInit /\ [][StripNext]_vars

\* ------------------------------------------------- markdown.rs: events
\* Most fenced or indented code blocks, paragraphs and the like in one
\* event stream.
MaxBlocks == 2
\* Most Text events in one code block.
MaxTexts == 2

\* An Event of pulldown_cmark: its variant (with the tag of a Start or
\* End), the info string of a fenced code block, and the text of a Text.
Event(ev, info, text) == [ev |-> ev, info |-> info, text |-> text]
StartFenced(info) == Event("Start(CodeBlock(Fenced))", info, <<>>)
EndFenced(info) == Event("End(CodeBlock(Fenced))", info, <<>>)
StartIndented == Event("Start(CodeBlock(Indented))", "", <<>>)
EndIndented == Event("End(CodeBlock(Indented))", "", <<>>)
StartParagraph == Event("Start(Paragraph)", "", <<>>)
EndParagraph == Event("End(Paragraph)", "", <<>>)
Text(code) == Event("Text", "", code)
NoEvent == Event("None", "", <<>>)

\* CodeBlockAttribute::new(attributes).is_formattable_rust()
is_formattable_rust(info) == info = "rust"

\* comment::RUSTFMT_CUSTOM_COMMENT_PREFIX
RUSTFMT_CUSTOM_COMMENT_PREFIX == <<"/", "/", "#", "#", "#", "#", " ">>

\* str::lines: the lines of s without their line feeds.
RECURSIVE lines(_)
lines(s) ==
    IF s = <<>> THEN <<>>
    ELSE LET nl == Find(s, <<"\n">>)
         IN  IF nl = -1 THEN <<s>>
             ELSE <<Prefix(s, nl)>> \o lines(Suffix(s, nl + 1))

\* Itertools::join
RECURSIVE join(_, _)
join(ls, sep) ==
    IF ls = <<>> THEN <<>>
    ELSE IF Len(ls) = 1 THEN ls[1]
    ELSE ls[1] \o sep \o join(Tail(ls), sep)

\* str::trim_start
TrimStart(s) == Suffix(s, RunLength(s, 0, WhiteSpaceChars))

\* comment::hide_sharp_behind_comment: a hidden rustdoc line is put behind
\* the custom comment prefix.
hide_sharp_behind_comment(line) ==
    IF IsPrefix(<<"#", " ">>, TrimStart(line)) \/ TrimStart(line) = <<"#">>
    THEN RUSTFMT_CUSTOM_COMMENT_PREFIX \o line
    ELSE line

\* comment::trim_custom_comment_prefix: the custom comment prefix is taken
\* off every line that starts with it.
trim_custom_comment_line(line) ==
    IF IsPrefix(RUSTFMT_CUSTOM_COMMENT_PREFIX, TrimStart(line))
    THEN Suffix(TrimStart(line), Len(RUSTFMT_CUSTOM_COMMENT_PREFIX))
    ELSE line

trim_custom_comment_prefix(s) ==
    join([i \in 1..Len(lines(s)) |-> trim_custom_comment_line(lines(s)[i])], <<"\n">>)

\* What next() hands to crate::format_code_block for a Text.
with_hidden_rustdoc_lines(code) ==
    join([i \in 1..Len(lines(code)) |-> hide_sharp_behind_comment(lines(code)[i])],
         <<"\n">>)

\* The four spaces an indented code block's text gets back.
CodeIndent == <<" ", " ", " ", " ">>

\* CodeBlockFormatter::next that returns the text it handed to
\* crate::format_code_block when that returns None.
CodeBlockFormatter_next_returns_handed(self, event, peek, formatted) ==
    LET same == [event |-> event,
                 format_code_block |-> self.format_code_block,
                 indented_code_block |-> self.indented_code_block,
                 handed |-> None]
    IN  IF event.ev = "Start(CodeBlock(Fenced))"
        THEN [same EXCEPT !.format_code_block = is_formattable_rust(event.info)]
        ELSE IF event.ev = "Text" /\ self.format_code_block
        THEN [same EXCEPT
                 !.handed = Some(with_hidden_rustdoc_lines(event.text)),
                 !.event = IF formatted.some
                           THEN Text(trim_custom_comment_prefix(formatted.value))
                           ELSE Text(with_hidden_rustdoc_lines(event.text))]
        ELSE IF event.ev = "End(CodeBlock(Fenced))" /\ self.format_code_block
        THEN [same EXCEPT !.format_code_block = FALSE]
        ELSE IF event.ev = "Start(CodeBlock(Indented))"
        THEN [same EXCEPT !.indented_code_block = TRUE, !.event = StartParagraph]
        ELSE IF event.ev = "Text" /\ self.indented_code_block
        THEN LET is_last_code_line == peek.ev = "End(CodeBlock(Indented))"
             IN  [same EXCEPT
                     !.event = IF is_last_code_line
                               THEN Text(CodeIndent \o TrimEnd(event.text))
                               ELSE Text(CodeIndent \o event.text)]
        ELSE IF event.ev = "End(CodeBlock(Indented))" /\ self.indented_code_block
        THEN [same EXCEPT !.indented_code_block = FALSE, !.event = EndParagraph]
        ELSE same

\* CodeBlockFormatter::next for an event taken from self.events: the event
\* it returns, the flags it leaves, and the text it handed to
\* crate::format_code_block, if it did.  peek is the event after this one
\* (NoEvent at the end), formatted what format_code_block returns.
CodeBlockFormatter_next(self, event, peek, formatted) ==
    LET same == [event |-> event,
                 format_code_block |-> self.format_code_block,
                 indented_code_block |-> self.indented_code_block,
                 handed |-> None]
    IN  IF event.ev = "Start(CodeBlock(Fenced))"
        THEN [same EXCEPT !.format_code_block = is_formattable_rust(event.info)]
        ELSE IF event.ev = "Text" /\ self.format_code_block
        THEN [same EXCEPT
                 !.handed = Some(with_hidden_rustdoc_lines(event.text)),
                 !.event = IF formatted.some
                           THEN Text(trim_custom_comment_prefix(formatted.value))
                           ELSE event]
        ELSE IF event.ev = "End(CodeBlock(Fenced))" /\ self.format_code_block
        THEN [same EXCEPT !.format_code_block = FALSE]
        ELSE IF event.ev = "Start(CodeBlock(Indented))"
        THEN [same EXCEPT !.indented_code_block = TRUE, !.event = StartParagraph]
        ELSE IF event.ev = "Text" /\ self.indented_code_block
        THEN LET is_last_code_line == peek.ev = "End(CodeBlock(Indented))"
             IN  [same EXCEPT
                     !.event = IF is_last_code_line
                               THEN Text(CodeIndent \o TrimEnd(event.text))
                               ELSE Text(CodeIndent \o event.text)]
        ELSE IF event.ev = "End(CodeBlock(Indented))" /\ self.indented_code_block
        THEN [same EXCEPT !.indented_code_block = FALSE, !.event = EndParagraph]
        ELSE same

\* The texts of the events of a stream.
Codes ==
    { <<"x", " ", " ", "x", "\n">>,
      <<"#", " ", "x", "\n", "x", "\n">> }

\* What crate::format_code_block may return for a snippet: None, or a
\* formatted snippet.
Snippets ==
    { <<"x", " ", "x", "\n">>,
      RUSTFMT_CUSTOM_COMMENT_PREFIX \o <<"#", " ", "x", "\n", "x", "\n">> }

FormatOutcomes == {None} \cup {Some(s) : s \in Snippets}

\* The events the parser yields for one block: a paragraph, a fenced code
\* block with its info string, or an indented code block.
Blocks ==
    {<<StartParagraph, Text(c), EndParagraph>> : c \in Codes}
    \cup {<<StartFenced(info)>> \o [i \in 1..n |-> Text(c)] \o <<EndFenced(info)>> :
              info \in {"rust", "text"}, c \in Codes, n \in 1..MaxTexts}
    \cup {<<StartIndented>> \o [i \in 1..n |-> Text(c)] \o <<EndIndented>> :
              c \in Codes, n \in 1..MaxTexts}

RECURSIVE StreamsUpTo(_)
StreamsUpTo(n) ==
    IF n = 0 THEN {<<>>}
    ELSE LET shorter == StreamsUpTo(n - 1)
         IN  shorter \cup {s \o b : s \in shorter, b \in Blocks}

EventStreams == StreamsUpTo(MaxBlocks)

\* ------------------------------------------- markdown.rs: the formatter
\* CodeBlockFormatter::new
CodeBlockFormatter_new(events) ==
    [events |-> events, format_code_block |-> FALSE,
     indented_code_block |-> FALSE]

\* The string variables while the markdown formatter runs.
StringsIdle ==
    /\ orig = <<>>
    /\ fmt = MakeFormat(CHOOSE layout \in Layouts : layout.indent = 0, 0, 0, FALSE)
    /\ newline_max_chars = 0
    /\ pc = "idle"
    /\ stripped_str = <<>>
    /\ splitter = NoSplitter
    /\ result = <<>>
    /\ state = NoState
    /\ step = NoStep
    /\ steps = 0
    /\ emitted = <<>>
    /\ line_ends = 0
    /\ ret = Pending

\* A CodeBlockFormatter over the events of one batch of a document.
MarkdownInit ==
    /\ StringsIdle
    /\ md_pc = "iterating"
    /\ \E events \in EventStreams : formatter = CodeBlockFormatter_new(events)
    /\ history = <<>>
    /\ DocumentIdle

\* next() on a stream that has an event: it is taken, matched and returned.
NextSome ==
    /\ md_pc = "iterating"
    /\ formatter.events # <<>>
    /\ \E formatted \in FormatOutcomes :
          LET event == Head(formatter.events)
              rest == Tail(formatter.events)
              peek == IF rest = <<>> THEN NoEvent ELSE Head(rest)
              out == CodeBlockFormatter_next(formatter, event, peek, formatted)
          IN  /\ formatter' = [events |-> rest,
                               format_code_block |-> out.format_code_block,
                               indented_code_block |-> out.indented_code_block]
              /\ history' = Append(history,
                                   [event |-> event, yielded |-> out.event,
                                    handed |-> out.handed,
                                    formatted |-> IF out.handed.some
                                                  THEN formatted ELSE None])
    /\ UNCHANGED <<strings, md_pc, document>>

\* next() on a stream that has none left: self.events.next()? returns None.
NextNone ==
    /\ md_pc = "iterating"
    /\ formatter.events = <<>>
    /\ md_pc' = "done"
    /\ UNCHANGED <<strings, formatter, history, document>>

MarkdownNext ==
    \/ NextSome
    \/ NextNone

MarkdownSpec == MarkdownInit /\ [][MarkdownNext]_vars

\* ----------------------------------------- markdown.rs: rewrite_markdown
\* Most top-level blocks (paragraphs, unordered lists) in one document.
MaxDocBlocks == 2

\* An item of parser.into_offset_iter(): an event and the slice of the
\* input its range covers.
Item(event, source) == [event |-> event, source |-> source]
StartList == Event("Start(List(None))", "", <<>>)
EndList == Event("End(List(None))", "", <<>>)
StartItem == Event("Start(Item)", "", <<>>)
EndItem == Event("End(Item)", "", <<>>)
StartEmphasis == Event("Start(Emphasis)", "", <<>>)
EndEmphasis == Event("End(Emphasis)", "", <<>>)

\* Inline content and the source it was parsed from: a word, an emphasised
\* word, an emphasised word inside an emphasis of the other character.
Emphasised(token, inner, source) ==
    LET whole == <<token>> \o source \o <<token>>
    IN  [items |-> <<Item(StartEmphasis, whole)>> \o inner
                   \o <<Item(EndEmphasis, whole)>>,
         source |-> whole]

Word == [items |-> <<Item(Text(<<"a">>), <<"a">>)>>, source |-> <<"a">>]

Inlines ==
    {Word}
    \cup {Emphasised(t, Word.items, Word.source) : t \in {"*", "_"}}
    \cup {LET inner == Emphasised(t[2], Word.items, Word.source)
          IN  Emphasised(t[1], inner.items, inner.source) :
              t \in {<<"*", "_">>, <<"_", "*">>}}

\* A paragraph, and a tight unordered list of one item with bullet `-`,
\* `+` or `*`.
DocBlocks ==
    {<<Item(StartParagraph, inl.source)>> \o inl.items
        \o <<Item(EndParagraph, inl.source)>> : inl \in Inlines}
    \cup {LET whole == <<bullet, " ">> \o inl.source
          IN  <<Item(StartList, whole), Item(StartItem, whole)>> \o inl.items
              \o <<Item(EndItem, whole), Item(EndList, whole)>> :
              bullet \in {"-", "+", "*"}, inl \in Inlines}

RECURSIVE DocumentsUpTo(_)
DocumentsUpTo(n) ==
    IF n = 0 THEN {<<>>}
    ELSE LET shorter == DocumentsUpTo(n - 1)
         IN  shorter \cup {s \o b : s \in shorter, b \in DocBlocks}

Documents == DocumentsUpTo(MaxDocBlocks)

\* default_fmt_options: Options::default() of pulldown_cmark_to_cmark
\* with code_block_token_count set
default_fmt_options ==
    [list_token |-> "*", emphasis_token |-> "*", code_block_token_count |-> 3]

\* item.chars().take(1).next().unwrap_or('*')
first_char_or_star(item) == IF item = <<>> THEN "*" ELSE item[1]

\* collect_events_until_fmt_options_update handing the options on as they
\* are when it stops.
RECURSIVE collect_events_keeping_tokens(_, _, _)
collect_events_keeping_tokens(evs, options, sub_events) ==
    IF evs = <<>>
    THEN [sub_events |-> sub_events, next_fmt_options |-> None, events |-> evs]
    ELSE LET peeked == Head(evs)
             token == first_char_or_star(peeked.source)
         IN  IF \/ peeked.event = StartList /\ options.list_token # token
                \/ peeked.event = StartEmphasis /\ options.emphasis_token # token
             THEN [sub_events |-> sub_events,
                   next_fmt_options |-> Some(options), events |-> evs]
             ELSE collect_events_keeping_tokens(Tail(evs), options,
                                                Append(sub_events, peeked.event))

\* collect_events_until_fmt_options_update, with the sub_events collected
\* so far: the loop over events.peek(). It returns the batch, the options
\* for the next iteration and what the iterator has left.
RECURSIVE collect_events_until_fmt_options_update(_, _, _)
collect_events_until_fmt_options_update(evs, options, sub_events) ==
    IF evs = <<>>
    THEN [sub_events |-> sub_events, next_fmt_options |-> None, events |-> evs]
    ELSE LET peeked == Head(evs)
             token == first_char_or_star(peeked.source)
         IN  IF peeked.event = StartList /\ options.list_token # token
             THEN [sub_events |-> sub_events,
                   next_fmt_options |-> Some([options EXCEPT !.list_token = token]),
                   events |-> evs]
             ELSE IF peeked.event = StartEmphasis /\ options.emphasis_token # token
             THEN [sub_events |-> sub_events,
                   next_fmt_options |-> Some([options EXCEPT !.emphasis_token = token]),
                   events |-> evs]
             ELSE collect_events_until_fmt_options_update(
                      Tail(evs), options, Append(sub_events, peeked.event))

\* fmt_options.unwrap_or_else(default_fmt_options)
current_fmt_options ==
    IF fmt_options.some THEN fmt_options.value ELSE default_fmt_options

\* rewrite_markdown up to its loop, on the events of a parsed document.
RewriteInit ==
    /\ StringsIdle
    /\ md_pc = "idle"
    /\ formatter = NoFormatter
    /\ history = <<>>
    /\ rewrite_pc = "loop"
    /\ parsed \in Documents
    /\ md_events = parsed
    /\ fmt_options = None
    /\ batches = <<>>

\* An iteration whose sub_events is empty: the options are updated and the
\* loop continues.
LoopContinue ==
    /\ rewrite_pc = "loop"
    /\ md_events # <<>>
    /\ LET collected == collect_events_until_fmt_options_update(
                            md_events, current_fmt_options, <<>>)
       IN  /\ collected.sub_events = <<>>
           /\ md_events' = collected.events
           /\ fmt_options' = collected.next_fmt_options
           /\ batches' = Append(batches, [sub_events |-> collected.sub_events,
                                          options |-> current_fmt_options])
    /\ UNCHANGED <<strings, md_pc, formatter, history, rewrite_pc, parsed>>

\* An iteration that collected events: they are rendered by
\* cmark_resume_with_options, whose Err ends the function with the input.
LoopResume ==
    /\ rewrite_pc = "loop"
    /\ md_events # <<>>
    /\ LET collected == collect_events_until_fmt_options_update(
                            md_events, current_fmt_options, <<>>)
       IN  /\ collected.sub_events # <<>>
           /\ md_events' = collected.events
           /\ fmt_options' = collected.next_fmt_options
           /\ batches' = Append(batches, [sub_events |-> collected.sub_events,
                                          options |-> current_fmt_options])
    /\ \E resumed \in {"Ok", "Err"} :
          rewrite_pc' = IF resumed = "Ok" THEN "loop" ELSE "returned_input"
    /\ UNCHANGED <<strings, md_pc, formatter, history, parsed>>

\* events.peek() is None: the loop is left and fmt_state.finalize decides
\* between the result and the input.
LoopExit ==
    /\ rewrite_pc = "loop"
    /\ md_events = <<>>
    /\ \E finalized \in {"Ok", "Err"} :
          rewrite_pc' = IF finalized = "Ok" THEN "returned_result"
                        ELSE "returned_input"
    /\ UNCHANGED <<strings, md_pc, formatter, history, parsed, md_events,
                   fmt_options, batches>>

RewriteNext ==
    \/ LoopContinue
    \/ LoopResume
    \/ LoopExit

RewriteMarkdownSpec == RewriteInit /\ [][RewriteNext]_vars

\* ---------------------------------------------------------------- claims
Stepped == step.returned = "Some"
\* from_format returned a splitter
Constructed == pc = "loop" \/ step.returned # "-"

\* C1: every next() on a non-empty text, whatever the budget (0 included),
\* splits at an index from 1 to len(text), so each step advances offset,
\* the number of steps never exceeds the offset reached (at most len(text)
\* steps in all), and the loop of rewrite_string ends.
C1_SplitInRange ==
    /\ Stepped => (1 <= step.split /\ step.split <= Len(step.before))
    /\ steps <= splitter.offset
    /\ splitter.offset <= Len(stripped_str)

\* Every iteration of the loop shrinks Len(stripped_str) - offset, which
\* C1_SplitInRange keeps at 0 or more.
C1_Terminates ==
    /\ []C1_SplitInRange
    /\ [][pc = "loop" /\ pc' = "loop" =>
            /\ splitter'.offset > splitter.offset
            /\ Len(splitter'.text) < Len(splitter.text)
            /\ steps' = steps + 1]_vars

\* A step that ran with a budget of 0 and still advanced.
C1_Witness == Stepped /\ step.budget = 0 /\ step.split >= 1 /\ steps >= 2

\* C2: offset never decreases, text is the splitter's input from offset to
\* its end, and next() returns None exactly when text is empty.
C2_TextIsSuffix ==
    Constructed => splitter.text = Suffix(stripped_str, splitter.offset)

C2_Cursor ==
    /\ []C2_TextIsSuffix
    /\ [][/\ splitter'.offset >= splitter.offset
          /\ pc = "loop" => ((step'.returned = "None") <=> (splitter.text = <<>>))]_vars

\* The splitter ran dry after at least two steps and next() returned None.
C2_Witness ==
    step.returned = "None" /\ steps >= 2 /\ splitter.offset = Len(stripped_str)

\* The URL guard moved the index the step had chosen.
Relocated == step.split # step.index

\* C3 as claimed: a line that is neither the last one (EndOfInput) nor the
\* consume-everything fallback is at most as wide as the budget its step
\* ran with, also when the URL guard relocated the split.
C3_WidthBoundAlways ==
    (Stepped /\ state.kind # "EndOfInput" /\ step.by # "Fallback")
        => unicode_str_width(state.text) <= step.budget

\* C3, amended: a line that is neither the last one nor the fallback, and
\* whose split index the URL guard did not relocate, is at most as wide as
\* the budget its step ran with.
C3_WidthBound ==
    (Stepped /\ state.kind # "EndOfInput" /\ step.by # "Fallback" /\ ~Relocated)
        => unicode_str_width(state.text) <= step.budget

\* A scanner break one column past the budget, taken because its trailing
\* space is trimmed.
C3_Witness ==
    /\ Stepped /\ state.kind = "LineEnd" /\ ~Relocated
    /\ unicode_str_width(step.consumed) = step.budget + 1
    /\ unicode_str_width(state.text) = step.budget

\* The number of backslashes s ends with.
TrailingBackslashes(s) ==
    LET other == {i \in 1..Len(s) : s[i] # "\\"}
    IN  Len(s) - (IF other = {} THEN 0 ELSE Max(other))

\* C4: a split that leaves text for a following line is never placed
\* directly after an unescaped backslash, whichever strategy chose it.
C4_NoSplitAfterBackslash ==
    (Stepped /\ state.kind # "EndOfInput")
        => TrailingBackslashes(step.consumed) % 2 = 0

\* A URL of text starts at 0-based position p: a marker, up to the next
\* white space or the end of text.
UrlStartsAt(text, p) ==
    \E m \in UrlMarkers :
        p + Len(m) <= Len(text) /\ SubSeq(text, p + 1, p + Len(m)) = m

UrlEnd(text, p) ==
    LET ws == FindWhitespace(Suffix(text, p))
    IN  IF ws = -1 THEN Len(text) ELSE p + ws

SplitsUrl(text, split) ==
    \E p \in 0..Len(text) :
        UrlStartsAt(text, p) /\ p < split /\ split < UrlEnd(text, p)

\* C5: no step's final split index falls strictly inside a URL of the
\* remaining text, also when that text holds more than one URL.
C5_NoSplitInsideUrl == Stepped => ~SplitsUrl(step.before, step.split)

\* The split falls between two Other Punctuation characters.
SplitsPunctuationRun(text, split) ==
    /\ 1 <= split /\ split < Len(text)
    /\ text[split] \in PunctuationOtherChars
    /\ text[split + 1] \in PunctuationOtherChars

\* C6 as claimed: no step splits between two adjacent punctuation
\* characters, whichever strategy chose the split index.
C6_NeverSplitsPunctuationRun ==
    Stepped => ~SplitsPunctuationRun(step.before, step.split)

\* C6, amended: a split index chosen by the Punctuation Finder or the
\* fallback, and not relocated by the URL guard, never falls between two
\* adjacent punctuation characters; and no strategy splits between a
\* punctuation character and a following "!", as in "!!".
C6_FinderKeepsPunctuationRun ==
    Stepped =>
        /\ (step.by \in {"Punctuation", "Fallback"} /\ ~Relocated)
              => ~SplitsPunctuationRun(step.before, step.split)
        /\ ~(/\ SplitsPunctuationRun(step.before, step.split)
             /\ step.before[step.split + 1] = "!")

\* The Punctuation Finder chose the split and passed over a boundary
\* between two punctuation characters.
C6_Witness ==
    /\ Stepped /\ step.by = "Punctuation" /\ ~Relocated
    /\ \E k \in 1..(step.split - 1) : SplitsPunctuationRun(step.before, k)

NonWhitespace(s) == SelectSeq(s, LAMBDA c : c \notin WhiteSpaceChars)

Consumed == Prefix(stripped_str, splitter.offset)

\* C7: the texts of the states yielded so far, concatenated, hold the
\* non-white-space characters of the input consumed so far, in order; they
\* equal that input when trim_end is false; and each state's text is its
\* step's slice less white space at the slice's end.
C7_NoContentLoss ==
    Stepped =>
        /\ NonWhitespace(emitted) = NonWhitespace(Consumed)
        /\ ~fmt.trim_end => emitted = Consumed
        /\ state.text = Prefix(step.consumed, Len(state.text))
        /\ is_whitespace(Suffix(step.consumed, Len(state.text)))

\* A run with trim_end that took two steps or more, dropped white space
\* and reached the end of its input.
C7_Witness ==
    /\ Stepped /\ fmt.trim_end /\ steps >= 2
    /\ splitter.text = <<>> /\ emitted # stripped_str

Count(s, set) == Cardinality({i \in 1..Len(s) : s[i] \in set})

\* C8: the output holds one newline for every newline of the
\* escape-collapsed input and one for every LineEnd step.
C8_NewlinesSurvive ==
    ret.some =>
        Count(ret.value, {"\n"}) = Count(stripped_str, {"\n"}) + line_ends

\* C9: with trim_end, the text a step hands out has no white space before
\* its newline, or at its end when it has no newline.
C9_NoTrailingWhitespace ==
    (Stepped /\ fmt.trim_end) =>
        LET line == IF EndsWith(state.text, {"\n"})
                    THEN Prefix(state.text, Len(state.text) - 1)
                    ELSE state.text
        IN  ~EndsWith(line, WhiteSpaceChars)


\* C10: with trim_end false the output holds every white-space character
\* of the escape-collapsed input, and the result buffer is only ever
\* appended to.
C10_WhitespaceKept ==
    /\ [](ret.some /\ ~fmt.trim_end =>
            Count(ret.value, WhiteSpaceChars) >= Count(stripped_str, WhiteSpaceChars))
    /\ [][pc = "loop" /\ ~fmt.trim_end => IsPrefix(result, result')]_vars

\* The indices a step on text self.text would slice with: the chosen index,
\* the URL guard's and the final split index.
StepIndices(self) ==
    {choose_split(self).index, url_guard_index(self),
     adjusted_split_index(self, choose_split(self).index)}

BudgetUnderflows ==
    max_width_with_indent(fmt) = -1 \/ max_width_without_indent(fmt) = -1

\* C11: rewrite_string returns None before its loop exactly when a budget
\* computation underflows, which it does whenever shape.width is less than
\* len(opener) + len(line_end) + 1; with the budgets computed every slice
\* index of a step lies within the text (no slice can panic), and a None
\* after that is the one of the final wrap check.
C11_StepsInRange ==
    /\ pc = "done" =>
          /\ BudgetUnderflows <=> (step.returned = "-")
          /\ BudgetUnderflows => (ret = None /\ steps = 0)
          /\ ~ret.some => (BudgetUnderflows \/ step.returned = "None")
    /\ fmt.shape_width < Len(fmt.opener) + Len(fmt.line_end) + 1 => BudgetUnderflows
    /\ (pc = "loop" /\ ~is_exhausted(splitter)) =>
          \A i \in StepIndices(splitter) : -1 <= i /\ i <= Len(splitter.text)

\* Every next() on a text that is not empty yields a SnippetState.
C11_FailsOnlyByNone ==
    /\ []C11_StepsInRange
    /\ [][(pc = "loop" /\ splitter.text # <<>>) =>
            /\ step'.returned = "Some"
            /\ state'.kind \in {"EndOfInput", "LineEnd", "EndWithLineFeed",
                                "RemovedSignificantLineFeed"}
            /\ pc' = "loop"]_vars

\* The fallback consumed a text with a URL and a newline in it, no break
\* fitting the budget.
C11_Witness ==
    /\ Stepped /\ step.by = "Fallback"
    /\ contains_url(step.before) /\ Count(step.before, {"\n"}) > 0

\* The output between its opener and its closer.
Body(out) == SubSeq(out, Len(fmt.opener) + 1, Len(out) - Len(fmt.closer))

\* C12 as claimed: rewrite_string applied to the body of its own output,
\* with the same format and newline budget, returns that output again.
C12_Idempotent ==
    (pc = "done" /\ ret.some) =>
        rewrite_string(Body(ret.value), fmt, newline_max_chars) = ret

\* C13: a step yields EndOfInput exactly when it leaves no text; nothing is
\* yielded after an EndOfInput, next() then returns None and leaves the
\* splitter as it is; the loop ends right after an EndOfInput when the
\* splitter's input is not empty and without any state when it is empty.
C13_EndOfInputIsLast ==
    /\ [](Stepped => ((state.kind = "EndOfInput") <=> (splitter.text = <<>>)))
    /\ [][/\ state.kind = "EndOfInput" => (step'.returned = "None" /\ steps' = steps)
          /\ step'.returned = "None" => splitter' = splitter
          /\ (pc = "loop" /\ pc' = "done") =>
                IF stripped_str = <<>> THEN steps = 0
                ELSE state.kind = "EndOfInput" /\ steps >= 1]_vars

\* The third state yielded, or a later one, is the EndOfInput.
C13_Witness == Stepped /\ state.kind = "EndOfInput" /\ steps >= 3

IsSuffix(s, t) == Len(s) <= Len(t) /\ s = Suffix(t, Len(t) - Len(s))

\* What one iteration of the loop appended to the buffer.
Appended(before, after) == Suffix(after, Len(before))

\* s holds a and, after it, b.
HoldsInOrder(s, a, b) ==
    \E i \in 0..Len(s) : Contains(Prefix(s, i), a) /\ Contains(Suffix(s, i), b)

\* The opener is pushed once, before the loop, and stays at the front; the
\* closer is pushed once, after the loop.
OpenerAndCloserOnce ==
    /\ pc = "start" /\ pc' # "start" => result' = fmt.opener
    /\ pc = "loop" /\ pc' = "loop" => IsPrefix(fmt.opener, result')
    /\ pc = "loop" /\ pc' = "done" =>
          /\ result' = result \o fmt.closer
          /\ IsPrefix(fmt.opener, result')
    /\ pc = "done" => result' = result

\* C14 as claimed: opener and closer are pushed once each, and every step
\* that leaves text for a following step appends line_end and, after it,
\* line_start.
C14_MarkersAtEveryBreak ==
    [][/\ OpenerAndCloserOnce
       /\ (pc = "loop" /\ pc' = "loop" /\ state'.kind # "EndOfInput") =>
             /\ IsPrefix(result, result')
             /\ HoldsInOrder(Appended(result, result'), fmt.line_end, fmt.line_start)]_vars

\* C14, amended: opener and closer are pushed once each; a LineEnd step
\* appends its text, line_end, a newline with the indentation and
\* line_start; an EndWithLineFeed or RemovedSignificantLineFeed step
\* appends no line_end, and leaves the buffer ending in its newline,
\* followed by the indentation and line_start only when line_start is
\* neither empty nor blank.
C14_MarkersAtLineEnds ==
    [][/\ OpenerAndCloserOnce
       /\ (pc = "loop" /\ pc' = "loop" /\ state'.kind = "LineEnd") =>
             result' = result \o state'.text \o fmt.line_end
                       \o <<"\n">> \o [k \in 1..fmt.indent |-> " "] \o fmt.line_start
       /\ (pc = "loop" /\ pc' = "loop"
             /\ state'.kind \in {"EndWithLineFeed", "RemovedSignificantLineFeed"}) =>
             /\ IsSuffix(<<"\n">> \o (IF splitter.is_bareline_ok THEN <<>>
                                      ELSE [k \in 1..fmt.indent |-> " "] \o fmt.line_start),
                         result')
             /\ Count(result', {"\\"}) <= Count(result \o state'.text, {"\\"})]_vars

\* A run whose first state ended in the line feed the input starts with,
\* and which has just yielded a LineEnd.
C14_Witness ==
    /\ Stepped /\ steps >= 2 /\ state.kind = "LineEnd"
    /\ Prefix(stripped_str, 1) = <<"\n">>

\* The state carries an integer: every kind but EndOfInput.
CarriesLength ==
    Stepped /\ state.kind \in {"LineEnd", "EndWithLineFeed", "RemovedSignificantLineFeed"}

\* C15 as claimed: the integer a state carries is the number of bytes its
\* own step consumed, and is at least the length of the state's text.
C15_LengthOfStep ==
    CarriesLength =>
        /\ state.len = step.split
        /\ state.len >= Len(state.text)

\* C15, amended: the integer a state carries is the splitter's offset after
\* the step, the number of bytes consumed by all steps so far; it is the
\* step's own consumption for the first state only, is at least the length
\* of all text handed out so far and more than that when a step trimmed
\* white space.
C15_LengthIsOffset ==
    CarriesLength =>
        /\ state.len = splitter.offset
        /\ state.len = Len(stripped_str) - Len(splitter.text)
        /\ state.len >= step.split
        /\ (steps = 1) => (state.len = step.split)
        /\ state.len >= Len(emitted)
        /\ Len(emitted) >= Len(state.text)
        /\ (Len(state.text) < step.split) => (state.len > Len(emitted))

\* A second or later state whose text was trimmed.
C15_Witness ==
    /\ CarriesLength /\ steps >= 2
    /\ state.len > step.split /\ step.split > Len(state.text)

\* The 0-based index of the first white space after the first "://" of s,
\* -1 when there is none.
WhitespaceAfterUrl(s) ==
    LET byte_index == Find(s, <<":", "/", "/">>)
        pos == FindWhitespace(Suffix(s, byte_index))
    IN  IF pos = -1 THEN -1 ELSE byte_index + pos

\* C16 as claimed, for a text s: None exactly without a marker, len(s)
\* when no white space follows the first "://", else the index directly
\* after the first white space that follows it.
UrlBreakAfterWhitespace(s) ==
    LET i == safe_break_after_url(s)
    IN  /\ (i = -1) <=> ~contains_url(s)
        /\ contains_url(s) =>
              IF WhitespaceAfterUrl(s) = -1 THEN i = Len(s)
              ELSE i = WhitespaceAfterUrl(s) + 1

UrlBreakAtOpportunity(s) ==
    LET i == safe_break_after_url(s)
        w == WhitespaceAfterUrl(s)
    IN  /\ (i = -1) <=> ~contains_url(s)
        /\ contains_url(s) =>
              IF w = -1 THEN i = Len(s)
              ELSE /\ w + 1 <= i /\ i <= Len(s)
                   /\ BreakAfter(s, i) # "None"
                   /\ \A k \in (w + 1)..(i - 1) : BreakAfter(s, k) = "None"
                   /\ (i = w + 1) <=> (BreakAfter(s, w + 1) # "None")

ScannerBreaks == line_break_opportunities(step.before, step.budget, fmt.trim_end)
MandatoryBreaks == {i \in ScannerBreaks : BreakAfter(step.before, i) = "Mandatory"}
PunctuationBreaks ==
    alternative_punctuation_breaks(step.before, step.budget, fmt.trim_end)

\* C18: when the Scanner yields a Mandatory break, the index the step
\* chooses, before the URL guard, is the first Mandatory break yielded,
\* whatever Allowed breaks come before or after it.
C18_FirstMandatory ==
    (Stepped /\ MandatoryBreaks # {}) =>
        /\ step.index \in MandatoryBreaks
        /\ \A i \in MandatoryBreaks : step.index <= i
        /\ step.by = "Mandatory"

\* The first Mandatory break was chosen with an Allowed break before it
\* and another break after it.
C18_Witness ==
    /\ Stepped /\ MandatoryBreaks # {}
    /\ \E i \in ScannerBreaks \ MandatoryBreaks : i < step.index
    /\ \E i \in ScannerBreaks : i > step.index

\* C19: without a Mandatory break the index the step chooses, before the
\* URL guard, is the last Allowed break yielded; without any Scanner break
\* it is the last position of the Punctuation Finder; without that either
\* it is len(text).
C19_LastAllowedThenPunctuation ==
    (Stepped /\ MandatoryBreaks = {}) =>
        IF ScannerBreaks # {}
        THEN /\ step.index \in ScannerBreaks
             /\ \A i \in ScannerBreaks : i <= step.index
             /\ step.by = "Allowed"
        ELSE IF PunctuationBreaks # {}
        THEN /\ step.index \in PunctuationBreaks
             /\ \A i \in PunctuationBreaks : i <= step.index
             /\ step.by = "Punctuation"
        ELSE step.index = Len(step.before) /\ step.by = "Fallback"

\* The last of two Allowed breaks or more was chosen, the Punctuation
\* Finder having a position of its own.
C19_Witness ==
    /\ Stepped /\ MandatoryBreaks = {} /\ Cardinality(ScannerBreaks) >= 2
    /\ step.index = Max(ScannerBreaks)
    /\ PunctuationBreaks \ ScannerBreaks # {}

\* C20: a step that leaves no text yields EndOfInput and leaves the budget
\* as it was; otherwise a slice ending in a newline yields EndWithLineFeed
\* with the slice as text when trim_end is false, and
\* RemovedSignificantLineFeed with the slice less its newline and the white
\* space before it when trim_end is true; any other slice yields LineEnd.
C20_Classification ==
    Stepped =>
        LET ends_with_newline == EndsWith(step.consumed, {"\n"})
        IN  /\ state.kind =
                  IF splitter.text = <<>> THEN "EndOfInput"
                  ELSE IF ends_with_newline
                  THEN (IF fmt.trim_end THEN "RemovedSignificantLineFeed"
                        ELSE "EndWithLineFeed")
                  ELSE "LineEnd"
            /\ state.kind = "EndOfInput" => splitter.max_graphemes = step.budget
            /\ state.kind = "EndWithLineFeed" => state.text = step.consumed
            /\ state.kind = "RemovedSignificantLineFeed" =>
                  /\ ~EndsWith(state.text, WhiteSpaceChars)
                  /\ IsPrefix(state.text, step.consumed)
                  /\ is_whitespace(Suffix(step.consumed, Len(state.text)))

\* A RemovedSignificantLineFeed whose slice had white space before its
\* newline.
C20_Witness ==
    /\ Stepped /\ state.kind = "RemovedSignificantLineFeed"
    /\ Len(state.text) + 1 < Len(step.consumed)


\* The i-th event the formatter took lies inside a fenced code block whose
\* info string is formattable Rust: the last code block boundary before it
\* is the start of such a block.
InsideFormattableFence(i) ==
    \E j \in 1..(i - 1) :
        /\ history[j].event.ev = "Start(CodeBlock(Fenced))"
        /\ is_formattable_rust(history[j].event.info)
        /\ \A k \in (j + 1)..(i - 1) : history[k].event.ev = "Text"

\* C17: a Text event whose text format_code_block returned None for is
\* returned by CodeBlockFormatter::next exactly as it was taken from the
\* stream, and only Text events inside a formattable fenced Rust code
\* block are handed to format_code_block.
C17_NoneKeepsOriginal ==
    \A i \in 1..Len(history) :
        LET h == history[i]
        IN  /\ (h.handed.some /\ ~h.formatted.some) => h.yielded = h.event
            /\ h.handed.some => (h.event.ev = "Text" /\ InsideFormattableFence(i))
            /\ (h.event.ev = "Text" /\ ~InsideFormattableFence(i)) => ~h.handed.some

\* A finished stream in which format_code_block returned None for a text
\* with a hidden rustdoc line, and which holds a Text event outside every
\* formattable fenced block.
C17_Witness ==
    /\ md_pc = "done"
    /\ \E i \in 1..Len(history) :
          /\ history[i].handed.some
          /\ ~history[i].formatted.some
          /\ history[i].handed.value # history[i].event.text
          /\ history[i].yielded = history[i].event
    /\ \E i \in 1..Len(history) :
          /\ history[i].event.ev = "Text"
          /\ ~InsideFormattableFence(i)
          /\ ~history[i].handed.some


\* The budget a step runs with, given the number of steps before it and
\* the state the step before it yielded.
BudgetOfStep(before, last) ==
    IF before = 0 THEN max_width_with_indent(fmt)
    ELSE IF last.kind = "LineEnd" THEN newline_max_chars
    ELSE IF fmt.line_start = <<>> \/ is_whitespace(fmt.line_start)
    THEN max_width_without_indent(fmt)
    ELSE max_width_with_indent(fmt)

\* The splitter holds the budgets and flags from_format gave it.
StoredFieldsKept ==
    Constructed =>
        /\ splitter.max_graphemes_with_indent = max_width_with_indent(fmt)
        /\ splitter.max_graphemes_without_indent = max_width_without_indent(fmt)
        /\ splitter.newline_max_graphemes = newline_max_chars
        /\ splitter.is_bareline_ok =
              (fmt.line_start = <<>> \/ is_whitespace(fmt.line_start))
        /\ splitter.trim_end = fmt.trim_end
        /\ splitter.max_graphemes \in
              {splitter.max_graphemes_with_indent,
               splitter.max_graphemes_without_indent,
               splitter.newline_max_graphemes}

\* C21: the first step runs with max_width_with_indent, the step after a
\* LineEnd with the caller's newline budget, the step after a line-feed
\* state with max_width_without_indent when line_start is empty or white
\* space and with max_width_with_indent otherwise; max_graphemes is always
\* one of the three stored budgets, and no step changes the stored
\* budgets, is_bareline_ok or trim_end.
C21_BudgetOfNextStep ==
    /\ []StoredFieldsKept
    /\ [][steps' = steps + 1 =>
            /\ step'.budget = BudgetOfStep(steps, state)
            /\ step'.budget = splitter.max_graphemes
            /\ splitter'.max_graphemes_with_indent = splitter.max_graphemes_with_indent
            /\ splitter'.max_graphemes_without_indent
                  = splitter.max_graphemes_without_indent
            /\ splitter'.newline_max_graphemes = splitter.newline_max_graphemes
            /\ splitter'.is_bareline_ok = splitter.is_bareline_ok
            /\ splitter'.trim_end = splitter.trim_end]_vars

\* A step ran with the wide budget, which is neither the first line's nor
\* the caller's: it followed a line-feed state.
C21_Witness ==
    /\ Stepped /\ steps >= 2
    /\ step.budget = max_width_without_indent(fmt)
    /\ step.budget # max_width_with_indent(fmt)
    /\ step.budget # newline_max_chars


\* The 0-based start of the first URL of text, -1 when it holds none.
FirstUrlStart(text) ==
    LET starts == {p \in 0..Len(text) : UrlStartsAt(text, p)}
    IN  IF starts = {} THEN -1 ELSE Min(starts)

\* C22: the URL guard moves a chosen split index only when it falls inside
\* a URL: an index at or before the start of the first URL of the
\* remaining text, or at or after the safe break that follows it, is used
\* as it is, and an index inside the URL is moved to that safe break.
C22_RelocatesOnlyInsideUrl ==
    (Stepped /\ contains_url(step.before)) =>
        LET start == FirstUrlStart(step.before)
            safe == safe_break_after_url(step.before)
        IN  /\ (step.index <= start \/ step.index >= safe)
               => step.split = step.index
            /\ (start < step.index /\ step.index < safe)
               => step.split = safe


\* The guard of the step being taken finds a URL in the remaining text.
GuardFindsUrl == splitter.contains_url /\ contains_url(splitter.text)

\* C23 as claimed: after a step whose guard found a URL, contains_url
\* equals whether the text left after the step's split holds a URL marker.
C23_FlagIsExact ==
    [][(steps' = steps + 1 /\ GuardFindsUrl) =>
          splitter'.contains_url = contains_url(splitter'.text)]_vars

\* While a URL marker is left in the remaining text the flag is set.
FlagCoversRemainder ==
    Constructed => (contains_url(splitter.text) => splitter.contains_url)

\* C23, amended: after a step whose guard found a URL, contains_url equals
\* whether the text from the guard's safe break on holds a URL marker; it
\* is set whenever the text left after the split holds one, and equals
\* that when the split is the safe break; the safe break is computed from
\* the text left by the steps before, which is the input from offset on.
C23_FlagFromSafeBreak ==
    /\ []FlagCoversRemainder
    /\ [][(steps' = steps + 1 /\ GuardFindsUrl) =>
            LET i == safe_break_after_url(Suffix(stripped_str, splitter.offset))
            IN  /\ splitter'.contains_url = contains_url(Suffix(splitter.text, i))
                /\ step'.split = (IF i > step'.index THEN i ELSE step'.index)
                /\ step'.split = i =>
                      splitter'.contains_url = contains_url(splitter'.text)]_vars

\* A step split at the safe break after a first URL and the flag stays
\* set for a second one in the text that is left.
C23_Witness ==
    /\ Stepped /\ contains_url(step.before)
    /\ step.split = safe_break_after_url(step.before)
    /\ splitter.contains_url /\ contains_url(splitter.text)


\* The scanner's answer for text, a budget and trim_end is the set of
\* UAX#14 break positions whose prefix ends neither in a backslash nor in
\* a punctuation dash and is within the budget, or one column past it
\* with trim_end set and a space separator at its end.
ScannerYieldsExactly(text, max_graphemes, trim_end) ==
    line_break_opportunities(text, max_graphemes, trim_end) =
        {i \in 1..Len(text) :
            /\ BreakAfter(text, i) \in {"Mandatory", "Allowed"}
            /\ text[i] # "\\"
            /\ text[i] \notin PunctuationDashChars
            /\ LET width == unicode_str_width(Prefix(text, i))
               IN  \/ width <= max_graphemes
                   \/ /\ width = max_graphemes + 1
                      /\ trim_end
                      /\ text[i] \in SeparatorSpaceChars}

\* C24: line_break_opportunities yields a line-break position exactly when
\* its prefix ends neither with a backslash nor with a punctuation dash
\* and is at most max_graphemes wide, or max_graphemes + 1 wide while
\* trim_end is set and the prefix ends in a space separator; this holds
\* for the input under every budget and for the text and budget of every
\* step, and the break a step takes as Mandatory is Mandatory in UAX#14.
C24_ScannerFilter ==
    /\ pc = "start" =>
          \A b \in 0..(Len(orig) + 1) : ScannerYieldsExactly(orig, b, fmt.trim_end)
    /\ Stepped =>
          /\ ScannerYieldsExactly(step.before, step.budget, fmt.trim_end)
          /\ step.by = "Mandatory" => BreakAfter(step.before, step.index) = "Mandatory"
          /\ step.by = "Allowed" => BreakAfter(step.before, step.index) = "Allowed"

\* A step whose scanner took a break one column past the budget for its
\* trailing space and turned down a break within the budget that follows
\* a dash or a backslash.
C24_Witness ==
    /\ Stepped
    /\ \E i \in ScannerBreaks :
          unicode_str_width(Prefix(step.before, i)) = step.budget + 1
    /\ \E j \in linebreaks(step.before) \ ScannerBreaks :
          unicode_str_width(Prefix(step.before, j)) <= step.budget


\* The Punctuation Finder's answer for text, a budget and trim_end is the
\* set of positions strictly inside text with an Other Punctuation
\* grapheme on the left, a grapheme on the right that is neither Other
\* Punctuation nor, unless trim_end is set, white space, and a prefix
\* within the budget.
FinderYieldsExactly(text, max_graphemes, trim_end) ==
    LET found == alternative_punctuation_breaks(text, max_graphemes, trim_end)
    IN  /\ found =
              {p \in 1..(Len(text) - 1) :
                  /\ text[p] \in PunctuationOtherChars
                  /\ text[p + 1] \notin PunctuationOtherChars
                  /\ (trim_end \/ text[p + 1] \notin WhiteSpaceChars)
                  /\ unicode_str_width(Prefix(text, p)) <= max_graphemes}
        /\ 0 \notin found
        /\ Len(text) \notin found

\* C25: alternative_punctuation_breaks yields the start p of the right
\* grapheme of an adjacent pair exactly when the left grapheme is Other
\* Punctuation, the right one is not, the right one is not white space
\* unless trim_end is set, and text[..p] is at most max_graphemes wide; it
\* never yields 0 or len(text).  This holds for the input under every
\* budget and for the text and budget of every step.
C25_FinderFilter ==
    /\ pc = "start" =>
          \A b \in 0..(Len(orig) + 1) : FinderYieldsExactly(orig, b, fmt.trim_end)
    /\ Stepped => FinderYieldsExactly(step.before, step.budget, fmt.trim_end)

\* A step whose finder yielded a position and refused, within the budget,
\* a position between a punctuation character and white space that
\* cannot be trimmed.
C25_Witness ==
    /\ Stepped /\ ~fmt.trim_end /\ PunctuationBreaks # {}
    /\ \E p \in 1..(Len(step.before) - 1) :
          /\ step.before[p] \in PunctuationOtherChars
          /\ step.before[p + 1] \in WhiteSpaceChars
          /\ unicode_str_width(Prefix(step.before, p)) <= step.budget
          /\ p \notin PunctuationBreaks


\* The backslash before 1-based position i of s is unescaped: an odd
\* number of backslashes ends there.
UnescapedBackslashBefore(s, i) ==
    TrailingBackslashes(Prefix(s, i - 1)) % 2 = 1

\* s holds a continuation: an unescaped backslash directly before a line
\* terminator.
HoldsContinuation(s) ==
    \E i \in 2..Len(s) : s[i] \in {"\n", "\r"} /\ UnescapedBackslashBefore(s, i)

\* C26: in the text handed to the splitter no unescaped backslash is
\* directly followed by a line terminator, wherever the continuation stood
\* in the input, the very start included.
C26_NoContinuationLeft ==
    pc # "start" => ~HoldsContinuation(stripped_str)


\* orig from 1-based position i on gives stripped_str from position j on
\* by removing nothing but continuation sequences: an unescaped backslash,
\* the line terminator after it and the white space that follows.
RECURSIVE OnlyContinuationsRemoved(_, _)
OnlyContinuationsRemoved(i, j) ==
    IF i > Len(orig) THEN j > Len(stripped_str)
    ELSE \/ /\ j <= Len(stripped_str)
            /\ orig[i] = stripped_str[j]
            /\ OnlyContinuationsRemoved(i + 1, j + 1)
         \/ /\ orig[i] = "\\"
            /\ TrailingBackslashes(Prefix(orig, i)) % 2 = 1
            /\ i < Len(orig)
            /\ orig[i + 1] \in {"\n", "\r"}
            /\ OnlyContinuationsRemoved(
                   i + 2 + RunLength(orig, i + 1, RegexSpaceChars), j)

\* The line terminators of orig that follow an even, non-zero number of
\* backslashes.
EscapedTerminators ==
    {i \in 1..Len(orig) :
        /\ orig[i] \in {"\n", "\r"}
        /\ TrailingBackslashes(Prefix(orig, i - 1)) > 0
        /\ TrailingBackslashes(Prefix(orig, i - 1)) % 2 = 0}

\* The backslashes before position i of orig, the terminator at i and the
\* white space after it.
EscapedSegment(i) ==
    SubSeq(orig, i - TrailingBackslashes(Prefix(orig, i - 1)),
           i + RunLength(orig, i, RegexSpaceChars))

\* C27: every line terminator of the input that follows an even, non-zero
\* number of backslashes is in the text handed to the splitter with those
\* backslashes and the white space after it, and that text is the input
\* less continuation sequences only.
C27_OnlyContinuationsRemoved ==
    pc = "stripped" =>
        /\ OnlyContinuationsRemoved(1, 1)
        /\ \A i \in EscapedTerminators : Contains(stripped_str, EscapedSegment(i))

\* An input in which a character other than a backslash, an escaped
\* backslash, a line terminator and a space follow each other, handed to
\* the splitter as it is.
C27_Witness ==
    /\ pc = "stripped"
    /\ orig # <<>> /\ orig[1] # "\\"
    /\ \E i \in EscapedTerminators : i < Len(orig) /\ orig[i + 1] = " "
    /\ stripped_str = orig


\* The two budgets of a format f, as C28 states them; -1 stands for None.
BudgetsAsStated(f) ==
    LET used == Len(f.opener) + Len(f.line_end)
    IN  /\ f.shape_width < used + 1 => max_width_with_indent(f) = -1
        /\ f.shape_width >= used + 1 =>
              /\ max_width_with_indent(f) = f.shape_width - used
              /\ max_width_with_indent(f) >= 1
        /\ f.max_width < Len(f.line_end) => max_width_without_indent(f) = -1
        /\ f.max_width >= Len(f.line_end) =>
              max_width_without_indent(f) = f.max_width - Len(f.line_end)
        /\ \A closer \in {<<>>, <<"\"">>, <<"\"", "\"">>} :
              /\ max_width_with_indent([f EXCEPT !.closer = closer])
                    = max_width_with_indent(f)
              /\ max_width_without_indent([f EXCEPT !.closer = closer])
                    = max_width_without_indent(f)

EndsInOneNewline(s) ==
    /\ EndsWith(s, {"\n"})
    /\ Len(s) >= 2 => s[Len(s) - 1] # "\n"

\* The text a line-feed state puts into the buffer: an EndWithLineFeed
\* carries its newline, a RemovedSignificantLineFeed gets it back.
LineFeedText(st) ==
    IF st.kind = "EndWithLineFeed" THEN st.text ELSE st.text \o <<"\n">>

\* The buffer a line-feed state is appended to: for a
\* RemovedSignificantLineFeed without text the white space the buffer
\* ends in goes first, a final newline staying.
LineFeedBase(buffer, st) ==
    IF st.kind = "RemovedSignificantLineFeed" /\ st.text = <<>>
    THEN TrimEnd(buffer) \o (IF EndsWith(buffer, {"\n"}) THEN <<"\n">> ELSE <<>>)
    ELSE buffer

\* C29: for an EndWithLineFeed or RemovedSignificantLineFeed step
\* rewrite_string appends the line's text, which ends in exactly one
\* newline, without line_end, and after it the indentation and line_start
\* exactly when line_start is neither empty nor white space only.
C29_LineFeedAppends ==
    [][(steps' = steps + 1
          /\ state'.kind \in {"EndWithLineFeed", "RemovedSignificantLineFeed"}) =>
          LET reindent == IF fmt.line_start = <<>> \/ is_whitespace(fmt.line_start)
                          THEN <<>>
                          ELSE [k \in 1..fmt.indent |-> " "] \o fmt.line_start
          IN  /\ EndsInOneNewline(LineFeedText(state'))
              /\ result' = LineFeedBase(result, state')
                           \o LineFeedText(state') \o reindent]_vars

\* A line-feed state after an earlier step, re-indented behind line_start
\* of a comment.
C29_Witness ==
    /\ Stepped /\ steps >= 2
    /\ state.kind \in {"EndWithLineFeed", "RemovedSignificantLineFeed"}
    /\ ~(fmt.line_start = <<>> \/ is_whitespace(fmt.line_start))
    /\ Len(state.text) >= 1
    /\ IsSuffix(<<"\n">> \o [k \in 1..fmt.indent |-> " "] \o fmt.line_start, result)


\* The test of the EndWithLineFeed arm that guards its strip of the
\* buffer: line == "\n" && fmt.trim_end.
StripsForBareNewline ==
    state.kind = "EndWithLineFeed" /\ state.text = <<"\n">> /\ fmt.trim_end

\* C30: EndWithLineFeed is yielded only with trim_end false and
\* RemovedSignificantLineFeed only with trim_end true; trim_end is the
\* same for the whole run, so one run never holds both; and the
\* EndWithLineFeed arm never strips the buffer.
C30_OneLineFeedVariant ==
    /\ [](/\ state.kind = "EndWithLineFeed" => ~fmt.trim_end
          /\ state.kind = "RemovedSignificantLineFeed" => fmt.trim_end
          /\ Constructed => splitter.trim_end = fmt.trim_end
          /\ ~StripsForBareNewline)
    /\ [][/\ fmt' = fmt
          /\ (state.kind = "EndWithLineFeed"
                => state'.kind # "RemovedSignificantLineFeed")
          /\ (state.kind = "RemovedSignificantLineFeed"
                => state'.kind # "EndWithLineFeed")
          /\ (steps' = steps + 1 /\ state'.kind = "EndWithLineFeed")
                => IsPrefix(result, result')]_vars

\* An EndWithLineFeed whose line is a bare newline, pushed behind the
\* white space an earlier step left at the end of the buffer.
C30_Witness ==
    /\ Stepped /\ steps >= 2 /\ splitter.is_bareline_ok
    /\ state.kind = "EndWithLineFeed" /\ state.text = <<"\n">>
    /\ Len(result) >= 2 /\ result[Len(result) - 1] \in WhiteSpaceChars


\* C31: a step whose remaining text holds no newline and is no wider than
\* the budget takes all of it and yields EndOfInput, whatever the text
\* ends in; an input that fits on the first line comes back as opener,
\* text (right-trimmed under trim_end) and closer.
C31_FittingTextIsNotSplit ==
    /\ (Stepped /\ ~Contains(step.before, <<"\n">>)
          /\ unicode_str_width(step.before) <= step.budget)
          => (step.split = Len(step.before) /\ state.kind = "EndOfInput")
    /\ (ret.some /\ ~Contains(stripped_str, <<"\n">>) /\ stripped_str # <<>>
          /\ unicode_str_width(stripped_str) <= max_width_with_indent(fmt))
          => ret.value = fmt.opener
                         \o (IF fmt.trim_end THEN TrimEnd(stripped_str)
                             ELSE stripped_str)
                         \o fmt.closer


\* C32: whenever the text a StringSplitter has left holds a URL marker its
\* contains_url flag is set, so a step on such a text runs the URL guard
\* and splits no earlier than the safe break after the URL; a flag that is
\* unset stays unset.
C32_FlagCoversUrl ==
    /\ [](Constructed => (contains_url(splitter.text) => splitter.contains_url))
    /\ [][(steps' = steps + 1 /\ contains_url(splitter.text)) =>
            /\ url_guard_index(splitter) = safe_break_after_url(splitter.text)
            /\ step'.split >= safe_break_after_url(splitter.text)]_vars
    /\ [][(pc = "loop" /\ ~splitter.contains_url) =>
            ~splitter'.contains_url]_vars

\* A step ran the guard on a text with a URL, moved past it and left the
\* flag unset with text still to split.
C32_Witness ==
    /\ Stepped /\ contains_url(step.before)
    /\ splitter.text # <<>>
    /\ ~contains_url(splitter.text) /\ ~splitter.contains_url


\* The events of a sequence of items, in order.
EventsOf(items) == [i \in 1..Len(items) |-> items[i].event]

\* The sub_events of all batches, one after the other.
RECURSIVE BatchedEvents(_)
BatchedEvents(bs) ==
    IF bs = <<>> THEN <<>>
    ELSE BatchedEvents(SubSeq(bs, 1, Len(bs) - 1)) \o bs[Len(bs)].sub_events

\* The next iteration would stop at the event it peeks first.
StopsAtOnce ==
    /\ md_events # <<>>
    /\ collect_events_until_fmt_options_update(
           md_events, current_fmt_options, <<>>).sub_events = <<>>

\* What the loop of rewrite_markdown has left to do: two for every event
\* not yet consumed, one for a stop before the first of them, one for
\* leaving the loop.
LoopMeasure ==
    IF rewrite_pc # "loop" THEN 0
    ELSE 2 * Len(md_events) + (IF StopsAtOnce THEN 1 ELSE 0) + 1

\* The token of the options that the event at the head of items asks for.
TokenAsked(options, items) ==
    IF Head(items).event = StartList THEN options.list_token
    ELSE options.emphasis_token

\* C33: the loop of rewrite_markdown ends on every finite event stream.
\* Each iteration consumes at least one event, or consumes none and sets
\* the list or emphasis token of the options to the one the peeked event
\* uses, and then the next iteration consumes that event; no two
\* iterations in a row consume nothing; the batches, one after the other,
\* are the events consumed so far in their order, each event once, and all
\* of them when the loop is left.
C33_OuterLoopTerminates ==
    /\ [](rewrite_pc # "idle" =>
            /\ BatchedEvents(batches) \o EventsOf(md_events) = EventsOf(parsed)
            /\ LoopMeasure >= 0
            /\ rewrite_pc = "returned_result" =>
                  BatchedEvents(batches) = EventsOf(parsed)
            /\ \A i \in 1..(Len(batches) - 1) :
                  batches[i].sub_events = <<>> =>
                     batches[i + 1].sub_events # <<>>)
    /\ [][rewrite_pc = "loop" => LoopMeasure' < LoopMeasure]_vars
    /\ [][(rewrite_pc = "loop" /\ md_events # <<>>) =>
            \/ /\ Len(md_events') < Len(md_events)
               /\ batches'[Len(batches')].sub_events =
                     EventsOf(SubSeq(md_events, 1,
                                     Len(md_events) - Len(md_events')))
            \/ /\ md_events' = md_events
               /\ batches'[Len(batches')].sub_events = <<>>
               /\ Head(md_events).event \in {StartList, StartEmphasis}
               /\ fmt_options'.some
               /\ fmt_options' # fmt_options
               /\ TokenAsked(fmt_options'.value, md_events) =
                     first_char_or_star(Head(md_events).source)
               /\ Head(collect_events_until_fmt_options_update(
                          md_events', fmt_options'.value, <<>>).sub_events) =
                     Head(md_events).event]_vars

\* A document was rendered to its end; its first iteration consumed
\* nothing, and a later one stopped before an emphasis with the other
\* character after collecting events.
C33_Witness ==
    /\ rewrite_pc = "returned_result"
    /\ Len(batches) >= 4
    /\ batches[1].sub_events = <<>>
    /\ \E i \in 2..Len(batches) :
          /\ batches[i].sub_events # <<>>
          /\ batches[i].options.emphasis_token = "_"
          /\ batches[i].options.list_token # "*"

====
